---- MODULE Spec2Model ----
(***************************************************************************)
(* Model of onnxruntime/core/framework/parallel_execution_plan.cc:         *)
(* the planner (ParallelExecutionPlanImpl's constructor), LogicStream::Run *)
(* and ParallelExecutionPlanImpl::Execute with its thread-pool tasks and   *)
(* barriers.                                                               *)
(***************************************************************************)
EXTENDS Integers, Sequences, FiniteSets, TLC

\* ------------------------------------------------------------------ bounds
MaxNodes == 3
MaxStreams == 3
MaxPlans == 2

\* ------------------------------------------------------------------ state
VARIABLES
  num_nodes,            \* number of nodes of the graph view
  edges,                \* graph edges <<u, v>>
  ep_of,                \* node -> execution provider of the node
  num_logic_streams_,   \* K
  phase,                \* "new" | "planned" | "failed"
  nodes_in_stream,      \* constructor local: logic stream -> node list
  node_to_notification, \* constructor local: node -> notification index
  logic_streams_,       \* logic stream -> [device_streams_, commands_]
  notification_owners_, \* notification index -> device stream
  node_to_stream_map_,  \* node -> device stream
  main_pc,              \* position of the thread that called Execute
  loop_i,               \* the loop counter of Execute's for loops
  stream_slot,          \* storage of the loop local `stream` (line 303)
  barrier_slot,         \* storage of the loop local `barrier` (line 304)
  main_cmd,             \* next command of the inline run of the last stream
  task,                 \* scheduled task -> [pc, stream, cmd, barrier]
  barriers,             \* barrier index -> set_
  notified,             \* notification index -> notify has been issued
  frame,                \* node -> value in the execution frame (0: not written)
  run_count,            \* logic stream -> completed LogicStream::Run calls
  fetches,              \* outputs returned by Execute (<<>> before it returns)
  status,               \* the Status Execute returned ("none" before it returns)
  notifications,        \* notification index -> times its handle was released
  main_flushed,         \* device streams flushed by the inline run, in order
  kernel_status,        \* "FAIL" once a kernel's Compute returned non-OK
  aborted,              \* the process was ended by a failed enforcement check
  released,             \* logic stream -> device streams released by its destructor
  session_eps,          \* provider types registered with the session
  ep_handlers,          \* provider types whose RegisterStreamHandlers adds create_stream
  registry,             \* provider types with a create_stream entry in the registry
  once_flag,            \* populate_command_handle_flag: "unset", "running" or "done"
  registrations,        \* calls of RegisterStreamCommandHanler so far
  ctor                  \* plan construction -> where its constructor is

planVars == <<nodes_in_stream, node_to_notification, logic_streams_,
              notification_owners_, node_to_stream_map_>>
graphVars == <<num_nodes, edges, ep_of, num_logic_streams_>>
execVars == <<main_pc, loop_i, stream_slot, barrier_slot, main_cmd, task,
              barriers, notified, frame, run_count, fetches, status, notifications,
              main_flushed, kernel_status, aborted, released>>
ctorVars == <<session_eps, ep_handlers, registry, once_flag, registrations, ctor>>
vars == <<graphVars, phase, planVars, execVars, ctorVars>>

Providers == {"cpu", "gpu"}
NoSlot == -1

\* ------------------------------------------------------------------ graph view
Nodes == 1..num_nodes
LogicStreamIds == 0..(num_logic_streams_ - 1)
BarrierIds == 0..(num_logic_streams_ - 2)

\* nodes are numbered in the topological order the graph view returns
GetNodesInTopologicalOrder == [p \in 1..num_nodes |-> p]

RECURSIVE SortedSeq(_)
SortedSeq(S) ==
  IF S = {} THEN <<>>
  ELSE LET m == CHOOSE x \in S : \A y \in S : x <= y
       IN <<m>> \o SortedSeq(S \ {m})

\* producers of n, in the order the edge set iterates them
InputNodes(n) == SortedSeq({e[1] : e \in {d \in edges : d[2] = n}})
\* consumers of n
OutputNodes(n) == SortedSeq({e[2] : e \in {d \in edges : d[1] = n}})

Range(s) == {s[k] : k \in 1..Len(s)}
IndexOf(s, x) == CHOOSE k \in 1..Len(s) : s[k] = x

\* ------------------------------------------------------------------ planner
\* pass 1: round-robin partition of the topological order
\* (variant: the stream counter is never wrapped)
StreamOfPositionNoWrap(p) == p - 1

StreamOfPosition(p) == (p - 1) % num_logic_streams_

\* (variant: each node is put at the front of its stream's node list)
PartitionReversed ==
  [i \in LogicStreamIds |->
     LET fwd == SelectSeq(GetNodesInTopologicalOrder,
                          LAMBDA n : StreamOfPosition(IndexOf(GetNodesInTopologicalOrder, n)) = i)
     IN [k \in 1..Len(fwd) |-> fwd[Len(fwd) + 1 - k]]]

Partition ==
  [i \in LogicStreamIds |->
     SelectSeq(GetNodesInTopologicalOrder,
               LAMBDA n : StreamOfPosition(IndexOf(GetNodesInTopologicalOrder, n)) = i)]

node_stream_map(nis, n) == CHOOSE i \in DOMAIN nis : n \in Range(nis[i])

\* pass 2: a node gets a notification when some consumer is not in its stream
\* (variant: any consumer counts, whatever its stream)
NeedsNotificationAnyConsumer(nis, i, n) == OutputNodes(n) # <<>>

NeedsNotification(nis, i, n) ==
  \E c \in Range(OutputNodes(n)) : c \notin Range(nis[i])

RECURSIVE VisitOrder(_, _)
VisitOrder(nis, i) ==
  IF i >= num_logic_streams_ THEN <<>>
  ELSE SelectSeq(nis[i], LAMBDA n : NeedsNotification(nis, i, n))
         \o VisitOrder(nis, i + 1)

\* (variant: the counter is incremented before it is stored)
NotificationDiscoveryFromOne(nis) ==
  LET order == VisitOrder(nis, 0)
  IN [n \in Range(order) |-> IndexOf(order, n)]

NotificationDiscovery(nis) ==
  LET order == VisitOrder(nis, 0)
  IN [n \in Range(order) |-> IndexOf(order, n) - 1]

\* pass 3: one device stream per distinct provider of a logic stream
\* (variant: the provider set is not consulted, every node creates a stream)
RECURSIVE BindDeviceStreamsPerNode(_, _, _)
BindDeviceStreamsPerNode(i, nodes, streams) ==
  IF nodes = <<>> THEN streams
  ELSE BindDeviceStreamsPerNode(i, Tail(nodes),
         Append(streams, [handle |-> <<i, Len(streams)>>, provider |-> ep_of[Head(nodes)]]))

RECURSIVE BindDeviceStreams(_, _, _)
BindDeviceStreams(i, nodes, streams) ==
  IF nodes = <<>> THEN streams
  ELSE LET ep == ep_of[Head(nodes)]
           seen == \E k \in 1..Len(streams) : streams[k].provider = ep
           made == [handle |-> <<i, Len(streams)>>, provider |-> ep]
       IN BindDeviceStreams(i, Tail(nodes),
                            IF seen THEN streams ELSE Append(streams, made))

DeviceStreams(nis) == [i \in LogicStreamIds |-> BindDeviceStreams(i, nis[i], <<>>)]

FindStream(streams, ep) ==
  LET hits == {k \in 1..Len(streams) : streams[k].provider = ep}
  IN IF hits = {} THEN <<>>
     ELSE <<streams[CHOOSE k \in hits : \A j \in hits : k <= j]>>

PartitionedNodes(nis) == UNION {Range(nis[i]) : i \in DOMAIN nis}

NodeToStreamMap(nis, ds) ==
  [n \in PartitionedNodes(nis) |-> FindStream(ds[node_stream_map(nis, n)], ep_of[n])[1]]

\* pass 4: the owner of a notification is the device stream of its node
\* (<<>> is an entry the resize of line 197 left null)
NotificationOwners(nis, ds, ntn) ==
  [id \in 0..(Cardinality(DOMAIN ntn) - 1) |->
     IF \E m \in DOMAIN ntn : ntn[m] = id
     THEN LET n == CHOOSE m \in DOMAIN ntn : ntn[m] = id
          IN FindStream(ds[node_stream_map(nis, n)], ep_of[n])[1]
     ELSE <<>>]

\* pass 5: wait* compute notify? per node, in the stream's node order
\* (variant: the in-edge loop stops after the first producer of another stream)
WaitCommandsFirstOnly(nis, ntn, owners, n2s, i, n) ==
  LET cross == SelectSeq(InputNodes(n), LAMBDA p : p \notin Range(nis[i]))
  IN [k \in 1..(IF Len(cross) > 0 THEN 1 ELSE 0) |->
        [kind |-> "wait", node |-> n,
         notification |-> IF cross[k] \in DOMAIN ntn THEN ntn[cross[k]] ELSE -1,
         stream |-> n2s[n]]]

WaitCommands(nis, ntn, owners, n2s, i, n) ==
  LET cross == SelectSeq(InputNodes(n), LAMBDA p : p \notin Range(nis[i]))
  IN [k \in 1..Len(cross) |->
        [kind |-> "wait", node |-> n,
         notification |-> IF cross[k] \in DOMAIN ntn THEN ntn[cross[k]] ELSE -1,
         stream |-> n2s[n]]]

ComputeCommand(n) ==
  <<[kind |-> "compute", node |-> n, notification |-> -1, stream |-> <<>>]>>

NotifyCommand(ntn, ds, i, n) ==
  IF n \in DOMAIN ntn
  THEN <<[kind |-> "notify", node |-> n, notification |-> ntn[n],
          stream |-> FindStream(ds[i], ep_of[n])[1]]>>
  ELSE <<>>

\* (variant: the notify is pushed before the launch-kernel command)
RECURSIVE EmitCommandsNotifyFirst(_, _, _, _, _, _, _)
EmitCommandsNotifyFirst(nis, ntn, owners, n2s, ds, i, nodes) ==
  IF nodes = <<>> THEN <<>>
  ELSE LET n == Head(nodes)
       IN WaitCommands(nis, ntn, owners, n2s, i, n)
            \o NotifyCommand(ntn, ds, i, n)
            \o ComputeCommand(n)
            \o EmitCommandsNotifyFirst(nis, ntn, owners, n2s, ds, i, Tail(nodes))

\* (variant: the waits are pushed after the launch-kernel command)
RECURSIVE EmitCommandsWaitLate(_, _, _, _, _, _, _)
EmitCommandsWaitLate(nis, ntn, owners, n2s, ds, i, nodes) ==
  IF nodes = <<>> THEN <<>>
  ELSE LET n == Head(nodes)
       IN ComputeCommand(n)
            \o WaitCommands(nis, ntn, owners, n2s, i, n)
            \o NotifyCommand(ntn, ds, i, n)
            \o EmitCommandsWaitLate(nis, ntn, owners, n2s, ds, i, Tail(nodes))

\* (variant: the commands of a node are put in front of those already pushed)
RECURSIVE EmitCommandsTailFirst(_, _, _, _, _, _, _)
EmitCommandsTailFirst(nis, ntn, owners, n2s, ds, i, nodes) ==
  IF nodes = <<>> THEN <<>>
  ELSE LET n == Head(nodes)
       IN EmitCommandsTailFirst(nis, ntn, owners, n2s, ds, i, Tail(nodes))
            \o WaitCommands(nis, ntn, owners, n2s, i, n)
            \o ComputeCommand(n)
            \o NotifyCommand(ntn, ds, i, n)

RECURSIVE EmitCommands(_, _, _, _, _, _, _)
EmitCommands(nis, ntn, owners, n2s, ds, i, nodes) ==
  IF nodes = <<>> THEN <<>>
  ELSE LET n == Head(nodes)
       IN WaitCommands(nis, ntn, owners, n2s, i, n)
            \o ComputeCommand(n)
            \o NotifyCommand(ntn, ds, i, n)
            \o EmitCommands(nis, ntn, owners, n2s, ds, i, Tail(nodes))

\* the ORT_ENFORCE checks of the constructor (lines 192, 210, 223, 240)
ConstructorEnforces(nis, ntn, ds) ==
  /\ \A n \in PartitionedNodes(nis) :
       FindStream(ds[node_stream_map(nis, n)], ep_of[n]) # <<>>
  /\ \A i \in LogicStreamIds : \A n \in Range(nis[i]) :
       \A p \in Range(InputNodes(n)) : p \notin Range(nis[i]) => p \in DOMAIN ntn

\* a fault or a failed ORT_ENFORCE of a command ends the process: nothing runs
\* after it
ProcessAlive == ~aborted

\* lines 34-39: every provider of the session registers its handlers
RegisterStreamCommandHanler == session_eps \cap ep_handlers

\* line 180: Get finds the provider of every node (no null pointer comes back)
ProviderResolved(n) == ep_of[n] \in session_eps

\* (variant: the create_stream function is used without being looked at)
CreateStreamEnforceSkipped(reg, n) == TRUE

\* lines 182-183: ORT_ENFORCE(create_stream_fn) for the provider of node n
CreateStreamEnforce(reg, n) == ep_of[n] \in reg

\* lines 175-183: the first node, in the order pass 3 visits the nodes, whose
\* provider is missing or has no create_stream entry (<<>> if there is none)
FirstUnbound(nis, reg) ==
  LET bad(i) == {k \in 1..Len(nis[i]) :
                   ~ProviderResolved(nis[i][k]) \/ ~CreateStreamEnforce(reg, nis[i][k])}
      hit == {i \in LogicStreamIds : bad(i) # {}}
  IN IF hit = {} THEN <<>>
     ELSE LET i == CHOOSE x \in hit : \A y \in hit : x <= y
              k == CHOOSE x \in bad(i) : \A y \in bad(i) : x <= y
          IN <<i, k>>

\* line 182 calls ep->Type() on the null pointer Get returned: the call
\* faults, or it yields a type the registry has no entry for
NullProviderOutcomes == {"crashed", "failed"}

\* how the constructor body can end with the registry holding reg
PlanOutcomes(nis, reg) ==
  LET u == FirstUnbound(nis, reg)
  IN IF u # <<>>
     THEN IF ProviderResolved(nis[u[1]][u[2]]) THEN {"failed"} ELSE NullProviderOutcomes
     ELSE IF ConstructorEnforces(nis, NotificationDiscovery(nis), DeviceStreams(nis))
          THEN {"planned"}
          ELSE {"failed"}

\* the device streams pass 3 had created when the constructor threw
StreamsBeforeFailure(nis, reg) ==
  LET u == FirstUnbound(nis, reg)
  IN IF u = <<>> THEN DeviceStreams(nis)
     ELSE [i \in LogicStreamIds |->
             IF i < u[1] THEN BindDeviceStreams(i, nis[i], <<>>)
             ELSE IF i = u[1] THEN BindDeviceStreams(i, SubSeq(nis[i], 1, u[2] - 1), <<>>)
             ELSE <<>>]

\* (variant: the destructor walks device_streams_ back to front)
ReleaseOrderReversed(streams) ==
  [k \in 1..Len(streams) |-> streams[Len(streams) + 1 - k].handle]

\* lines 97-102: the handles release_stream is called on, in call order
ReleaseOrder(streams) == [k \in 1..Len(streams) |-> streams[k].handle]

\* lines 141-257: the constructor body after call_once, ending as `outcome`
PlanPasses(reg, outcome) ==
  LET nis == Partition
      ntn == NotificationDiscovery(nis)
      ds == DeviceStreams(nis)
  IN /\ outcome \in PlanOutcomes(nis, reg)
     /\ phase' = outcome
     /\ aborted' = (outcome = "crashed")
     /\ IF outcome = "planned"
        THEN LET n2s == NodeToStreamMap(nis, ds)
                 owners == NotificationOwners(nis, ds, ntn)
             IN /\ nodes_in_stream' = nis
                /\ node_to_notification' = ntn
                /\ node_to_stream_map_' = n2s
                /\ notification_owners_' = owners
                /\ logic_streams_' =
                     [i \in LogicStreamIds |->
                        [device_streams_ |-> ds[i],
                         commands_ |-> EmitCommands(nis, ntn, owners, n2s, ds, i, nis[i])]]
                /\ UNCHANGED released
        ELSE /\ UNCHANGED planVars
             /\ released' = IF outcome = "failed"
                            THEN [i \in LogicStreamIds |->
                                    ReleaseOrder(StreamsBeforeFailure(nis, reg)[i])]
                            ELSE released
     /\ UNCHANGED <<graphVars, main_pc, loop_i, stream_slot, barrier_slot, main_cmd, task,
                    barriers, notified, frame, run_count, fetches, status, notifications,
                    main_flushed, kernel_status, session_eps, ep_handlers>>

\* lines 135-257: one plan construction, from call_once to the last pass
Construct ==
  /\ ProcessAlive
  /\ phase = "new"
  /\ once_flag' = "done"
  /\ registrations' = IF once_flag = "unset" THEN registrations + 1 ELSE registrations
  /\ registry' = IF once_flag = "unset" THEN registry \cup RegisterStreamCommandHanler
                 ELSE registry
  /\ \E outcome \in {"planned", "failed", "crashed"} : PlanPasses(registry', outcome)
  /\ UNCHANGED ctor

\* ------------------------------------------------------------------ Init
ForwardPairs(n) == {e \in (1..n) \X (1..n) : e[1] < e[2]}

\* the session's graph and a process that has built no plan yet
InitProcess ==
  /\ num_nodes \in 1..MaxNodes
  /\ edges \in SUBSET ForwardPairs(num_nodes)
  /\ ep_of \in [1..num_nodes -> Providers]
  /\ num_logic_streams_ \in 1..MaxStreams
  /\ phase = "new"
  /\ nodes_in_stream = <<>>
  /\ node_to_notification = <<>>
  /\ logic_streams_ = <<>>
  /\ notification_owners_ = <<>>
  /\ node_to_stream_map_ = <<>>
  /\ main_pc = "idle"
  /\ loop_i = 0
  /\ stream_slot = NoSlot
  /\ barrier_slot = NoSlot
  /\ main_cmd = 1
  /\ task = <<>>
  /\ barriers = <<>>
  /\ notified = <<>>
  /\ frame = <<>>
  /\ run_count = <<>>
  /\ fetches = <<>>
  /\ status = "none"
  /\ notifications = <<>>
  /\ main_flushed = <<>>
  /\ kernel_status = "OK"
  /\ aborted = FALSE
  /\ released = <<>>
  /\ registry = {}
  /\ once_flag = "unset"
  /\ registrations = 0

\* a session whose providers all register a create_stream entry
Init ==
  /\ InitProcess
  /\ session_eps = Providers
  /\ ep_handlers = Providers
  /\ ctor = <<>>

\* ------------------------------------------------------------------ kernels
RECURSIVE SumOver(_, _)
SumOver(fr, S) ==
  IF S = {} THEN 0
  ELSE LET x == CHOOSE y \in S : TRUE
       IN fr[x] + SumOver(fr, S \ {x})

\* a deterministic kernel: its output depends on what the frame holds for its
\* inputs when it runs (0 stands for a tensor not written yet)
Kernel(fr, n) == 1 + SumOver(fr, Range(InputNodes(n)))

GraphOutputs == {n \in Nodes : OutputNodes(n) = <<>>}
GetOutputs(fr) == [n \in GraphOutputs |-> fr[n]]

\* ------------------------------------------------------------------ Execute
\* lines 296-300: the frame, the execution context (one notification per
\* entry of notification_owners_, lines 57-65) and the K-1 barriers
ExecuteBegin ==
  /\ ProcessAlive
  /\ phase = "planned"
  /\ main_pc = "idle"
  /\ frame' = [n \in Nodes |-> 0]
  /\ notified' = [id \in DOMAIN notification_owners_ |-> FALSE]
  /\ notifications' = [id \in DOMAIN notification_owners_ |-> 0]
  /\ barriers' = [b \in BarrierIds |-> FALSE]
  /\ task' = [b \in BarrierIds |->
                [pc |-> "unscheduled", stream |-> NoSlot, cmd |-> 1, barrier |-> NoSlot,
                 flushed |-> <<>>]]
  /\ run_count' = [i \in LogicStreamIds |-> 0]
  /\ loop_i' = 0
  /\ main_pc' = "schedule"
  /\ UNCHANGED <<ctorVars, graphVars, phase, planVars, released, stream_slot, barrier_slot, main_cmd, fetches,
                 status, main_flushed, kernel_status, aborted>>

\* lines 302-309, one iteration: the locals `stream` and `barrier` are written
\* and a task holding references to them is handed to the thread pool
Schedule ==
  /\ ProcessAlive
  /\ main_pc = "schedule"
  /\ loop_i < num_logic_streams_ - 1
  /\ stream_slot' = loop_i
  /\ barrier_slot' = loop_i
  /\ task' = [task EXCEPT ![loop_i].pc = "queued"]
  /\ loop_i' = loop_i + 1
  /\ UNCHANGED <<ctorVars, graphVars, phase, planVars, released, main_pc, main_cmd, barriers, notified,
                 frame, run_count, fetches, status, notifications, main_flushed,
                 kernel_status, aborted>>

\* what the storage of the dead loop local `stream` holds once line 312 has
\* defined the second `stream`: the build may or may not reuse the storage
SlotAfterLoop(reuse) ==
  IF reuse /\ num_logic_streams_ >= 2 THEN num_logic_streams_ - 1 ELSE stream_slot

\* line 312
BindLastStream ==
  /\ ProcessAlive
  /\ main_pc = "schedule"
  /\ loop_i >= num_logic_streams_ - 1
  /\ \E reuse \in BOOLEAN : stream_slot' = SlotAfterLoop(reuse)
  /\ main_cmd' = 1
  /\ main_pc' = "run"
  /\ UNCHANGED <<ctorVars, graphVars, phase, planVars, released, loop_i, barrier_slot, task, barriers,
                 notified, frame, run_count, fetches, status, notifications, main_flushed,
                 kernel_status, aborted>>

\* the wait handle returns once notify has been recorded for the notification
WaitReady(c) == notified[c.notification]

\* (variant: the Status of Compute is not looked at)
ComputeEnforceIgnored(ok) == TRUE

\* line 245: the condition of the ORT_ENFORCE around Compute
ComputeEnforce(ok) == ok

\* one command of a logic stream (the closures of lines 228, 241, 252)
Command(c) ==
  /\ c.kind = "wait" => WaitReady(c)
  /\ \E ok \in BOOLEAN :
       /\ c.kind # "compute" => ok
       /\ frame' = IF c.kind = "compute" /\ ok
                   THEN [frame EXCEPT ![c.node] = Kernel(frame, c.node)]
                   ELSE frame
       /\ kernel_status' = IF ok THEN kernel_status ELSE "FAIL"
       /\ aborted' = ~ComputeEnforce(ok)
  /\ notified' = IF c.kind = "notify"
                 THEN [notified EXCEPT ![c.notification] = TRUE]
                 ELSE notified

\* the `stream` a task runs: read through the captured reference (line 306)
TaskStreamRead(t) == stream_slot
\* the `barrier` a task sets: read through the captured reference (line 307)
TaskBarrierRead(t) == barrier_slot

TaskStart(t) ==
  /\ ProcessAlive
  /\ t \in DOMAIN task
  /\ task[t].pc = "queued"
  /\ task' = [task EXCEPT ![t].pc = "running", ![t].stream = TaskStreamRead(t), ![t].cmd = 1]
  /\ UNCHANGED <<ctorVars, graphVars, phase, planVars, released, main_pc, loop_i, stream_slot, barrier_slot,
                 main_cmd, barriers, notified, frame, run_count, fetches, status,
                 notifications, main_flushed, kernel_status, aborted>>

\* LogicStream::Run, lines 87-89, one command
TaskCommand(t) ==
  /\ ProcessAlive
  /\ t \in DOMAIN task
  /\ task[t].pc = "running"
  /\ task[t].cmd <= Len(logic_streams_[task[t].stream].commands_)
  /\ Command(logic_streams_[task[t].stream].commands_[task[t].cmd])
  /\ task' = [task EXCEPT ![t].cmd = @ + 1]
  /\ UNCHANGED <<ctorVars, graphVars, phase, planVars, released, main_pc, loop_i, stream_slot, barrier_slot,
                 main_cmd, barriers, run_count, fetches, status, notifications, main_flushed>>

\* (variant: the flush loop runs over the device streams back to front)
FlushOrderReversed(i) ==
  [k \in 1..Len(logic_streams_[i].device_streams_) |->
     logic_streams_[i].device_streams_[Len(logic_streams_[i].device_streams_) + 1 - k].handle]

\* lines 91-94: the handles flush_stream is called on, in call order
FlushOrder(i) ==
  [k \in 1..Len(logic_streams_[i].device_streams_) |->
     logic_streams_[i].device_streams_[k].handle]

\* the end of Run (the flush loop, lines 91-94) and barrier->set() (line 307)
TaskFinish(t) ==
  /\ ProcessAlive
  /\ t \in DOMAIN task
  /\ task[t].pc = "running"
  /\ task[t].cmd > Len(logic_streams_[task[t].stream].commands_)
  /\ run_count' = [run_count EXCEPT ![task[t].stream] = @ + 1]
  /\ barriers' = [barriers EXCEPT ![TaskBarrierRead(t)] = TRUE]
  /\ task' = [task EXCEPT ![t].pc = "done", ![t].barrier = TaskBarrierRead(t),
                          ![t].flushed = FlushOrder(task[t].stream)]
  /\ UNCHANGED <<ctorVars, graphVars, phase, planVars, released, main_pc, loop_i, stream_slot, barrier_slot,
                 main_cmd, notified, frame, fetches, status, notifications, main_flushed,
                 kernel_status, aborted>>

LastStream == num_logic_streams_ - 1

\* line 313, one command of the inline run
MainCommand ==
  /\ ProcessAlive
  /\ main_pc = "run"
  /\ main_cmd <= Len(logic_streams_[LastStream].commands_)
  /\ Command(logic_streams_[LastStream].commands_[main_cmd])
  /\ main_cmd' = main_cmd + 1
  /\ UNCHANGED <<ctorVars, graphVars, phase, planVars, released, main_pc, loop_i, stream_slot, barrier_slot,
                 task, barriers, run_count, fetches, status, notifications, main_flushed>>

\* line 313, the end of the inline run (flush loop)
MainFinish ==
  /\ ProcessAlive
  /\ main_pc = "run"
  /\ main_cmd > Len(logic_streams_[LastStream].commands_)
  /\ run_count' = [run_count EXCEPT ![LastStream] = @ + 1]
  /\ main_flushed' = FlushOrder(LastStream)
  /\ loop_i' = 0
  /\ main_pc' = "wait"
  /\ UNCHANGED <<ctorVars, graphVars, phase, planVars, released, stream_slot, barrier_slot, main_cmd, task,
                 barriers, notified, frame, fetches, status, notifications,
                 kernel_status, aborted>>

\* (variant: wait returns without looking at set_)
BarrierIsSetUnchecked(i) == TRUE

\* lines 18-22: Barrier::wait leaves its loop once set_ is true
BarrierIsSet(i) == barriers[i]

\* lines 315-317, one iteration
BarrierWait ==
  /\ ProcessAlive
  /\ main_pc = "wait"
  /\ loop_i < num_logic_streams_ - 1
  /\ BarrierIsSet(loop_i)
  /\ loop_i' = loop_i + 1
  /\ UNCHANGED <<ctorVars, graphVars, phase, planVars, released, main_pc, stream_slot, barrier_slot, main_cmd,
                 task, barriers, notified, frame, run_count, fetches, status,
                 notifications, main_flushed, kernel_status, aborted>>

\* lines 68-72: the release function of every notification is called
ReleaseNotifications == [id \in DOMAIN notifications |-> notifications[id] + 1]

\* lines 321-323: GetOutputs fills the fetches or fails; on both paths the
\* execution context is destroyed
Return ==
  /\ ProcessAlive
  /\ main_pc = "wait"
  /\ loop_i >= num_logic_streams_ - 1
  /\ \E ok \in BOOLEAN :
       /\ fetches' = IF ok THEN GetOutputs(frame) ELSE <<>>
       /\ status' = IF ok THEN "OK" ELSE "error"
  /\ notifications' = ReleaseNotifications
  /\ main_pc' = "returned"
  /\ UNCHANGED <<ctorVars, graphVars, phase, planVars, released, loop_i, stream_slot, barrier_slot, main_cmd,
                 task, barriers, notified, frame, run_count, main_flushed,
                 kernel_status, aborted>>

\* lines 283-285, 331-332: the plan is destroyed outside of Execute; the
\* vector logic_streams_ destroys every LogicStream
Destroy ==
  /\ ProcessAlive
  /\ phase = "planned"
  /\ main_pc \in {"idle", "returned"}
  /\ phase' = "destroyed"
  /\ released' = [i \in LogicStreamIds |-> ReleaseOrder(logic_streams_[i].device_streams_)]
  /\ UNCHANGED <<ctorVars, graphVars, planVars, main_pc, loop_i, stream_slot, barrier_slot, main_cmd,
                 task, barriers, notified, frame, run_count, fetches, status,
                 notifications, main_flushed, kernel_status, aborted>>

MainStep ==
  \/ Construct
  \/ ExecuteBegin
  \/ Schedule
  \/ BindLastStream
  \/ MainCommand
  \/ MainFinish
  \/ BarrierWait
  \/ Return
  \/ Destroy

TaskStep(t) ==
  \/ TaskStart(t)
  \/ TaskCommand(t)
  \/ TaskFinish(t)

Next ==
  \/ MainStep
  \/ \E t \in 0..(MaxStreams - 2) : TaskStep(t)

Spec == Init /\ [][Next]_vars

\* every thread keeps running while it has something to do
FairSpec ==
  /\ Spec
  /\ WF_vars(MainStep)
  /\ \A t \in 0..(MaxStreams - 2) : WF_vars(TaskStep(t))

\* ------------------------------------------------------------------ plan constructions
\* MaxPlans threads construct a plan each for the same session, in any
\* interleaving; the session may lack providers, and a provider may register
\* no create_stream entry
CtorInit ==
  /\ InitProcess
  /\ session_eps \in SUBSET Providers
  /\ ep_handlers \in SUBSET session_eps
  /\ ctor = [p \in 1..MaxPlans |-> "start"]

\* lines 138-139: the first caller of call_once becomes the active one
CallOnceEnter(p) ==
  /\ ProcessAlive
  /\ ctor[p] = "start"
  /\ once_flag = "unset"
  /\ once_flag' = "running"
  /\ ctor' = [ctor EXCEPT ![p] = "registering"]
  /\ UNCHANGED <<graphVars, phase, planVars, execVars, session_eps, ep_handlers,
                 registry, registrations>>

\* lines 34-39, run by the active caller, which then sets the flag
Register(p) ==
  /\ ProcessAlive
  /\ ctor[p] = "registering"
  /\ registry' = registry \cup RegisterStreamCommandHanler
  /\ registrations' = registrations + 1
  /\ once_flag' = "done"
  /\ ctor' = [ctor EXCEPT ![p] = "entered"]
  /\ UNCHANGED <<graphVars, phase, planVars, execVars, session_eps, ep_handlers>>

\* (variant: a caller returns as soon as another one is active)
CallOnceReturnsEarly == once_flag # "unset"

\* line 138: a caller that is not the active one returns from call_once only
\* when the active call has returned
CallOnceReturns == once_flag = "done"

CallOnceSkip(p) ==
  /\ ProcessAlive
  /\ ctor[p] = "start"
  /\ CallOnceReturns
  /\ ctor' = [ctor EXCEPT ![p] = "entered"]
  /\ UNCHANGED <<graphVars, phase, planVars, execVars, session_eps, ep_handlers,
                 registry, once_flag, registrations>>

\* lines 141-257 of construction p
CtorPlan(p) ==
  /\ ProcessAlive
  /\ ctor[p] = "entered"
  /\ \E outcome \in {"planned", "failed", "crashed"} :
       /\ PlanPasses(registry, outcome)
       /\ ctor' = [ctor EXCEPT ![p] = outcome]
  /\ UNCHANGED <<registry, once_flag, registrations>>

CtorNext ==
  \E p \in 1..MaxPlans :
    \/ CallOnceEnter(p)
    \/ Register(p)
    \/ CallOnceSkip(p)
    \/ CtorPlan(p)

CtorSpec == CtorInit /\ [][CtorNext]_vars

\* ------------------------------------------------------------------ the plan, read back
Planned == phase = "planned"
Commands(i) == logic_streams_[i].commands_
\* the logic streams whose node list holds n
StreamsOf(n) == {i \in LogicStreamIds : n \in Range(nodes_in_stream[i])}
\* an edge whose endpoints are in different logic streams
CrossStream(e) == StreamsOf(e[1]) # StreamsOf(e[2])
CrossStreamEdges == {e \in edges : CrossStream(e)}
\* the positions of a command of the given kind in logic stream i
WaitPositions(i, id) ==
  {p \in 1..Len(Commands(i)) : Commands(i)[p].kind = "wait" /\ Commands(i)[p].notification = id}
ComputePositions(i, n) ==
  {p \in 1..Len(Commands(i)) : Commands(i)[p].kind = "compute" /\ Commands(i)[p].node = n}
NotifyPositions(i, id) ==
  {p \in 1..Len(Commands(i)) : Commands(i)[p].kind = "notify" /\ Commands(i)[p].notification = id}

\* <<logic stream, position>> of every occurrence over all logic streams
NodeListPlaces(n) ==
  UNION {{<<i, k>> : k \in {j \in 1..Len(nodes_in_stream[i]) : nodes_in_stream[i][j] = n}} :
           i \in LogicStreamIds}
ComputePlaces(n) == UNION {{<<i, p>> : p \in ComputePositions(i, n)} : i \in LogicStreamIds}
NotifyPlaces(id) == UNION {{<<i, p>> : p \in NotifyPositions(i, id)} : i \in LogicStreamIds}

\* C1: for every graph edge u -> v of a built plan, either u and v are in the
\* same logic stream, or the command list of v's logic stream holds a wait on
\* the notification allocated to u strictly before the compute command of v.
DependencyClosure ==
  Planned =>
    \A e \in edges :
      \/ ~CrossStream(e)
      \/ /\ e[1] \in DOMAIN node_to_notification
         /\ \A i \in StreamsOf(e[2]) :
              \E w \in WaitPositions(i, node_to_notification[e[1]]) :
                \E c \in ComputePositions(i, e[2]) : w < c

\* a plan where a node has two producers in two other logic streams
DependencyClosureWitness ==
  /\ Planned
  /\ \E e \in edges : \E f \in edges :
       /\ e # f /\ e[2] = f[2] /\ CrossStream(e) /\ CrossStream(f)
       /\ StreamsOf(e[1]) # StreamsOf(f[1])

\* C6: after plan construction every node of the graph view is in exactly one
\* logic stream's node list, has exactly one compute command over all command
\* lists, and has exactly one entry in the node->stream map.
PartitionTotality ==
  Planned =>
    /\ DOMAIN node_to_stream_map_ = Nodes
    /\ \A n \in Nodes :
         /\ Cardinality(StreamsOf(n)) = 1
         /\ Cardinality(NodeListPlaces(n)) = 1
         /\ Cardinality(ComputePlaces(n)) = 1

\* a plan of at least two logic streams with more nodes than logic streams
\* (the round-robin wraps)
PartitionTotalityWitness ==
  /\ Planned
  /\ num_nodes > num_logic_streams_
  /\ num_logic_streams_ >= 2

\* C7: each notification id has exactly one notify command over all logic
\* streams; it is in the producer's logic stream and it is the command right
\* after the producer's compute command.
NotifyUniqueness ==
  Planned =>
    \A id \in DOMAIN notification_owners_ :
      LET hits == NotifyPlaces(id)
      IN /\ Cardinality(hits) = 1
         /\ \A h \in hits :
              /\ h[2] > 1
              /\ Commands(h[1])[h[2] - 1].kind = "compute"
              /\ Commands(h[1])[h[2] - 1].node \in DOMAIN node_to_notification
              /\ node_to_notification[Commands(h[1])[h[2] - 1].node] = id
              /\ StreamsOf(Commands(h[1])[h[2] - 1].node) = {h[1]}

\* a plan with at least two notifications
NotifyUniquenessWitness ==
  /\ Planned
  /\ Cardinality(DOMAIN notification_owners_) >= 2

\* the nodes with an out-edge to a node of another logic stream
CrossStreamProducers == {e[1] : e \in CrossStreamEdges}

\* C8: the number of notifications equals the number of nodes with at least
\* one out-edge into another logic stream; such a node has one notification
\* however many cross-stream consumers it has, every other node has none.
NoSpuriousNotifications ==
  Planned =>
    /\ Cardinality(DOMAIN notification_owners_) = Cardinality(CrossStreamProducers)
    /\ DOMAIN node_to_notification = CrossStreamProducers

\* a plan with a node that has two cross-stream consumers and a node that has
\* no consumer in another logic stream
NoSpuriousNotificationsWitness ==
  /\ Planned
  /\ \E e \in CrossStreamEdges : \E f \in CrossStreamEdges : e[1] = f[1] /\ e[2] # f[2]
  /\ \E n \in Nodes : n \notin CrossStreamProducers
  /\ Cardinality(DOMAIN notification_owners_) = Cardinality(CrossStreamProducers)

\* ------------------------------------------------------------------ Execute, observed
\* a step in which a thread executes the compute command of node v
TaskRunsCompute(t, v) ==
  /\ t \in DOMAIN task
  /\ task[t].pc = "running"
  /\ task[t].cmd \in ComputePositions(task[t].stream, v)
  /\ task'[t].cmd = task[t].cmd + 1
MainRunsCompute(v) ==
  /\ main_pc = "run"
  /\ main_cmd \in ComputePositions(LastStream, v)
  /\ main_cmd' = main_cmd + 1
ComputeStarts(v) == MainRunsCompute(v) \/ \E t \in BarrierIds : TaskRunsCompute(t, v)

\* C2: in every interleaving of the logic streams during Execute, for every
\* edge u -> v whose endpoints are in different logic streams, the compute
\* command of v starts only when the compute command of u has finished and
\* the notify of u's notification has been issued.
CrossStreamOrder ==
  [][Planned =>
       \A e \in CrossStreamEdges :
         ComputeStarts(e[2]) =>
           /\ frame[e[1]] # 0
           /\ notified[node_to_notification[e[1]]]]_vars

\* the consumer of a cross-stream edge has been computed by a thread-pool task
\* while the producer ran in another thread
CrossStreamOrderWitness ==
  /\ Planned
  /\ main_pc \notin {"idle", "schedule"}
  /\ \E e \in CrossStreamEdges : \E t \in BarrierIds :
       /\ task[t].pc \in {"running", "done"}
       /\ task[t].stream \in StreamsOf(e[2])
       /\ task[t].cmd > CHOOSE p \in ComputePositions(task[t].stream, e[2]) : TRUE
       /\ frame[e[2]] # 0

\* C3: Execute returns only after each of the K-1 scheduled logic streams has
\* run all its commands and its barrier is set.
BarrierCompletion ==
  main_pc = "returned" =>
    \A i \in BarrierIds : barriers[i] /\ run_count[i] >= 1

\* C4: the task scheduled for logic stream i runs logic stream i and sets
\* barrier i, whenever the thread pool starts it.
TaskBindingStable ==
  \A t \in DOMAIN task :
    /\ task[t].pc \in {"running", "done"} => task[t].stream = t
    /\ task[t].pc = "done" => task[t].barrier = t

\* C5: under weak fairness of every thread, every Execute call that has
\* begun eventually returns, unless a kernel fails.
ExecuteTerminates == (main_pc = "schedule") ~> (main_pc = "returned" \/ kernel_status = "FAIL")

\* the frame of the sequential run: every kernel in topological order
RECURSIVE SequentialRun(_, _)
SequentialRun(fr, order) ==
  IF order = <<>> THEN fr
  ELSE SequentialRun([fr EXCEPT ![Head(order)] = Kernel(fr, Head(order))], Tail(order))

SequentialFetches ==
  GetOutputs(SequentialRun([n \in Nodes |-> 0], GetNodesInTopologicalOrder))

\* C9: for a fixed graph and deterministic kernels the outputs returned by
\* Execute are those of the sequential run, for every K and every interleaving.
OutputsMatchSequential ==
  main_pc = "returned" /\ status = "OK" => fetches = SequentialFetches

\* ------------------------------------------------------------------ more of the plan
\* lines 119-122
GetComputeStreamForNode(n) ==
  IF n \in DOMAIN node_to_stream_map_ THEN node_to_stream_map_[n] ELSE <<>>

\* C11: with K = 1 the plan has one logic stream, no notification, no wait
\* and no notify command, and its commands are one compute command per node in
\* the topological order; Execute then schedules no task and waits on no
\* barrier.
DegenerateSingleStream ==
  num_logic_streams_ = 1 =>
    /\ Planned =>
         /\ DOMAIN logic_streams_ = {0}
         /\ DOMAIN notification_owners_ = {}
         /\ DOMAIN node_to_notification = {}
         /\ Len(Commands(0)) = num_nodes
         /\ \A p \in 1..num_nodes :
              /\ Commands(0)[p].kind = "compute"
              /\ Commands(0)[p].node = GetNodesInTopologicalOrder[p]
    /\ main_pc # "idle" => DOMAIN task = {} /\ DOMAIN barriers = {}
    /\ loop_i = 0

\* Execute has returned on a single-stream plan of a graph with edges
DegenerateSingleStreamWitness ==
  /\ num_logic_streams_ = 1
  /\ num_nodes >= 3
  /\ edges # {}
  /\ main_pc = "returned"

DeviceStreamsOf(i) == logic_streams_[i].device_streams_
ProvidersIn(i) == {ep_of[n] : n \in Range(nodes_in_stream[i])}
AllDeviceStreams == UNION {Range(DeviceStreamsOf(i)) : i \in LogicStreamIds}

\* C12: two nodes map to the same device stream iff they are in the same
\* logic stream and have the same provider; each logic stream owns exactly one
\* device stream per provider of its nodes, and each node maps to the device
\* stream of its own logic stream that has the node's provider.
DeviceStreamSharing ==
  Planned =>
    /\ \A a \in Nodes : \A b \in Nodes :
         (GetComputeStreamForNode(a) = GetComputeStreamForNode(b))
           <=> (StreamsOf(a) = StreamsOf(b) /\ ep_of[a] = ep_of[b])
    /\ \A i \in LogicStreamIds :
         /\ \A ep \in ProvidersIn(i) :
              Cardinality({k \in 1..Len(DeviceStreamsOf(i)) :
                             DeviceStreamsOf(i)[k].provider = ep}) = 1
         /\ \A k \in 1..Len(DeviceStreamsOf(i)) : DeviceStreamsOf(i)[k].provider \in ProvidersIn(i)
         /\ \A k \in 1..Len(DeviceStreamsOf(i)) : \A j \in 1..Len(DeviceStreamsOf(i)) :
              DeviceStreamsOf(i)[k].handle = DeviceStreamsOf(i)[j].handle => k = j
    /\ \A n \in Nodes : \A i \in StreamsOf(n) :
         /\ GetComputeStreamForNode(n) \in Range(DeviceStreamsOf(i))
         /\ GetComputeStreamForNode(n).provider = ep_of[n]

\* a logic stream with two nodes of one provider and a node of another
DeviceStreamSharingWitness ==
  /\ Planned
  /\ \E a \in Nodes : \E b \in Nodes : \E c \in Nodes :
       /\ a # b
       /\ StreamsOf(a) = StreamsOf(b) /\ StreamsOf(a) = StreamsOf(c)
       /\ ep_of[a] = ep_of[b] /\ ep_of[a] # ep_of[c]
       /\ GetComputeStreamForNode(a) = GetComputeStreamForNode(b)
       /\ GetComputeStreamForNode(a) # GetComputeStreamForNode(c)

\* C19: for every edge u -> v with both endpoints in one logic stream, the
\* compute command of u precedes the compute command of v in that stream's
\* command list.
IntraStreamTopological ==
  Planned =>
    \A e \in edges :
      ~CrossStream(e) =>
        \A i \in StreamsOf(e[1]) :
          /\ ComputePositions(i, e[1]) # {}
          /\ ComputePositions(i, e[2]) # {}
          /\ \A pu \in ComputePositions(i, e[1]) : \A pv \in ComputePositions(i, e[2]) : pu < pv

\* a plan of several logic streams with an edge inside one of them
IntraStreamTopologicalWitness ==
  /\ Planned
  /\ num_logic_streams_ >= 2
  /\ \E e \in edges : ~CrossStream(e) /\ CrossStreamEdges # {}

NumNotifications == Cardinality(DOMAIN node_to_notification)
\* where pass 2 visits a node: <<logic stream, position in its node list>>
VisitPlace(n) ==
  LET i == CHOOSE j \in StreamsOf(n) : TRUE
  IN <<i, IndexOf(nodes_in_stream[i], n)>>
VisitedBefore(a, b) ==
  \/ VisitPlace(a)[1] < VisitPlace(b)[1]
  \/ VisitPlace(a)[1] = VisitPlace(b)[1] /\ VisitPlace(a)[2] < VisitPlace(b)[2]

FlushDiscipline ==
  Planned /\ main_pc # "idle" =>
    /\ \A t \in DOMAIN task :
         IF task[t].pc = "done"
         THEN /\ task[t].cmd > Len(Commands(task[t].stream))
              /\ Len(task[t].flushed) = Len(DeviceStreamsOf(task[t].stream))
              /\ \A k \in 1..Len(task[t].flushed) :
                   task[t].flushed[k] = DeviceStreamsOf(task[t].stream)[k].handle
         ELSE task[t].flushed = <<>>
    /\ IF main_pc \in {"wait", "returned"}
       THEN /\ main_cmd > Len(Commands(LastStream))
            /\ Len(main_flushed) = Len(DeviceStreamsOf(LastStream))
            /\ \A k \in 1..Len(main_flushed) :
                 main_flushed[k] = DeviceStreamsOf(LastStream)[k].handle
       ELSE main_flushed = <<>>

\* a thread-pool task has finished the run of a logic stream that owns two
\* device streams, and the inline run has flushed a device stream too
FlushDisciplineWitness ==
  /\ Planned
  /\ main_pc = "returned"
  /\ Len(main_flushed) >= 1
  /\ \E t \in DOMAIN task : task[t].pc = "done" /\ Len(task[t].flushed) >= 2

\* a step in which a thread executes a wait or notify command on notification id
TaskAccesses(t, id) ==
  /\ task[t].pc = "running"
  /\ task[t].cmd <= Len(Commands(task[t].stream))
  /\ Commands(task[t].stream)[task[t].cmd].kind \in {"wait", "notify"}
  /\ Commands(task[t].stream)[task[t].cmd].notification = id
  /\ task'[t].cmd = task[t].cmd + 1
MainAccesses(id) ==
  /\ main_pc = "run"
  /\ main_cmd <= Len(Commands(LastStream))
  /\ Commands(LastStream)[main_cmd].kind \in {"wait", "notify"}
  /\ Commands(LastStream)[main_cmd].notification = id
  /\ main_cmd' = main_cmd + 1
NotificationAccessed(id) == MainAccesses(id) \/ \E t \in DOMAIN task : TaskAccesses(t, id)

\* C13: an Execute call creates one notification per entry of
\* notification_owners_ before any command runs, releases each of them exactly
\* once when it returns (with an OK or an error status), and no wait or notify
\* command touches a notification that has been released.
NotificationLifecycle ==
  /\ [](Planned /\ main_pc # "idle" =>
          /\ DOMAIN notifications = DOMAIN notification_owners_
          /\ \A id \in DOMAIN notifications :
               notifications[id] = IF main_pc = "returned" THEN 1 ELSE 0)
  /\ [][Planned => \A id \in DOMAIN notifications :
          NotificationAccessed(id) => notifications[id] = 0]_vars

\* Execute has returned an error status after a run with two notifications
NotificationLifecycleWitness ==
  /\ Planned
  /\ main_pc = "returned"
  /\ status = "error"
  /\ NumNotifications >= 2
  /\ \A id \in DOMAIN notification_owners_ : notifications[id] = 1 /\ notified[id]

\* C17: once a kernel's Compute has returned a non-OK status inside a logic
\* stream command, no later command executes and that Execute call never
\* returns an OK status with populated fetches.
KernelFailureFatal ==
  /\ [](kernel_status = "FAIL" =>
          /\ main_pc # "returned"
          /\ status # "OK"
          /\ fetches = <<>>)
  /\ [][kernel_status = "FAIL" =>
          /\ main_cmd' = main_cmd
          /\ \A t \in DOMAIN task : task'[t].cmd = task[t].cmd]_vars

\* a kernel has failed while another thread still had commands to execute
KernelFailureFatalWitness ==
  /\ Planned
  /\ kernel_status = "FAIL"
  /\ aborted
  /\ \E t \in DOMAIN task :
       /\ task[t].pc = "running"
       /\ task[t].cmd <= Len(Commands(task[t].stream))
  /\ main_pc = "run"

\* ------------------------------------------------------------------ destruction
\* C15 as stated: a destroyed logic stream has called release_stream exactly
\* once on each of its device streams, in the reverse of their insertion order.
ReleaseInReverseOrder ==
  phase = "destroyed" =>
    \A i \in LogicStreamIds :
      /\ Len(released[i]) = Len(DeviceStreamsOf(i))
      /\ \A k \in 1..Len(released[i]) :
           released[i][k] = DeviceStreamsOf(i)[Len(released[i]) + 1 - k].handle

\* C15, amended: a destroyed logic stream has called release_stream exactly
\* once on each of its device streams, in their insertion order.
ReleaseInInsertionOrder ==
  phase = "destroyed" =>
    \A i \in LogicStreamIds :
      /\ Len(released[i]) = Len(DeviceStreamsOf(i))
      /\ \A k \in 1..Len(released[i]) :
           released[i][k] = DeviceStreamsOf(i)[k].handle

\* a plan was destroyed after an Execute call, and one of its logic streams
\* owned two device streams
ReleaseInInsertionOrderWitness ==
  /\ phase = "destroyed"
  /\ main_pc = "returned"
  /\ \E i \in LogicStreamIds : Len(released[i]) >= 2

\* ------------------------------------------------------------------ registration, planning failures
\* C16: however the plan constructions of a process interleave, the stream
\* handlers are registered once, and a construction that has left call_once
\* (and so may look up create_stream) finds the registration completed.
RegistrationOnce ==
  /\ registrations <= 1
  /\ \A p \in DOMAIN ctor :
       ctor[p] \notin {"start", "registering"} =>
         /\ registrations = 1
         /\ once_flag = "done"
         /\ registry = RegisterStreamCommandHanler

\* two constructions have completed on one registration
RegistrationOnceWitness ==
  /\ registrations = 1
  /\ registry # {}
  /\ \A p \in 1..MaxPlans : p \in DOMAIN ctor /\ ctor[p] = "planned"

\* C18: when a node's provider is not registered with the session, or the
\* registry has no create_stream entry for it, no construction completes and
\* no plan exists.
PlanningFailure ==
  (\E n \in Nodes : ep_of[n] \notin session_eps \/ ep_of[n] \notin registry) =>
    /\ \A p \in DOMAIN ctor : ctor[p] # "planned"
    /\ phase # "planned"
    /\ logic_streams_ = <<>>
    /\ node_to_stream_map_ = <<>>

\* a construction has failed on the enforcement check for a graph with a node
\* whose provider registers no create_stream and a node of an unregistered
\* provider
PlanningFailureWitness ==
  /\ \E p \in DOMAIN ctor : ctor[p] = "failed"
  /\ \E n \in Nodes : ep_of[n] \notin session_eps
  /\ \E n \in Nodes : ep_of[n] \in session_eps \ registry
  /\ once_flag = "done"

\* ------------------------------------------------------------------ runs per Execute
\* C21: when Execute has returned, every logic stream has been run exactly
\* once by LogicStream::Run: none was skipped and none was run twice.
EachStreamRunOnce ==
  main_pc = "returned" =>
    \A i \in LogicStreamIds : run_count[i] = 1
====
